---- MODULE Spec2Model ----
(***************************************************************************)
(* Model of src/scheduler/into_workload_system.rs: the conversions of a    *)
(* callable (or of an already built WorkloadSystem) into a WorkloadSystem, *)
(* the borrow validation they run, and the thunk (system_fn) they build.   *)
(***************************************************************************)
EXTENDS Integers, Sequences, FiniteSets, TLC

VARIABLES func, result, passed, world, last

vars == <<func, result, passed, world, last>>

(* ---------------------------- bounds ---------------------------------- *)

\* largest arity of the callables whose conversion is explored (SpecConv)
MaxArity == 4
\* largest arity of the callables whose thunk is run (Spec)
MaxRunArity == 3
\* number of side effects the callable may leave in the world
MaxWorld == 2

(* ------------------------ access descriptors -------------------------- *)

Mutability == {"Shared", "Exclusive"}

\* StorageId::of::<AllStorages>()
AllStoragesId == "AllStorages"

StorageIds == {AllStoragesId, "A", "B"}

TypeInfo(n, id, m) ==
    [name |-> n, storage_id |-> id, mutability |-> m,
     is_send |-> TRUE, is_sync |-> TRUE]

\* equality of two TypeInfo: storage and mutability, the name is a label
TypeInfoEq(a, b) ==
    a.storage_id = b.storage_id /\ a.mutability = b.mutability

\* the parameter types a callable is built from
ParamTypes ==
    {"ViewA", "ViewMutA", "ViewB", "ViewMutB",
     "AllStoragesView", "AllStoragesViewMut", "Unit", "ViewMutAViewB"}

\* the records a parameter type contributes
Records(t) ==
    CASE t = "ViewA"              -> <<TypeInfo("A", "A", "Shared")>>
      [] t = "ViewMutA"           -> <<TypeInfo("A", "A", "Exclusive")>>
      [] t = "ViewB"              -> <<TypeInfo("B", "B", "Shared")>>
      [] t = "ViewMutB"           -> <<TypeInfo("B", "B", "Exclusive")>>
      [] t = "AllStoragesView"    -> <<TypeInfo("AllStorages", AllStoragesId, "Shared")>>
      [] t = "AllStoragesViewMut" -> <<TypeInfo("AllStorages", AllStoragesId, "Exclusive")>>
      [] t = "Unit"               -> << >>
      [] t = "ViewMutAViewB"      -> <<TypeInfo("A", "A", "Exclusive"),
                                       TypeInfo("B", "B", "Shared")>>

\* $type::borrow_info(&mut borrows)
borrow_info(t, borrows) == borrows \o Records(t)

\* $( $type::borrow_info(&mut borrows); )+  in declared order
RECURSIVE Accumulate(_, _, _)
Accumulate(params, k, borrows) ==
    IF k > Len(params) THEN borrows
    ELSE Accumulate(params, k + 1, borrow_info(params[k], borrows))

(* --------------------------- validation ------------------------------- *)

\* the TypeInfo literal of the AllStorages test
Sentinel ==
    [name |-> "", storage_id |-> AllStoragesId, mutability |-> "Exclusive",
     is_send |-> TRUE, is_sync |-> TRUE]

\* borrows.contains(&x)
Contains(borrows, x) == \E i \in 1..Len(borrows) : TypeInfoEq(borrows[i], x)

AllStoragesCheckLenient(borrows) ==
    Contains(borrows, Sentinel) /\ Len(borrows) > 2

\* borrows.contains(&TypeInfo {..}) && borrows.len() > 1
AllStoragesCheck(borrows) ==
    Contains(borrows, Sentinel) /\ Len(borrows) > 1

MidFloor(len) == len \div 2

\* borrows.len() / 2 + (borrows.len() % 2 != 0) as usize
Mid(len) == (len \div 2) + (IF len % 2 # 0 THEN 1 ELSE 0)

MatchMixedAllowed(a, b) ==
    IF a = "Exclusive" /\ b = "Exclusive" THEN "MultipleViewsMut" ELSE "none"

MatchSwapped(a, b) ==
    IF a = "Exclusive" /\ b = "Exclusive" THEN "MultipleViews"
    ELSE IF a = "Shared" /\ b = "Shared" THEN "none"
    ELSE "MultipleViewsMut"

\* match (a_type_info.mutability, b_type_info.mutability)
Match(a, b) ==
    IF a = "Exclusive" /\ b = "Exclusive" THEN "MultipleViewsMut"
    ELSE IF a = "Shared" /\ b = "Shared" THEN "none"
    ELSE "MultipleViews"

\* for b_type_info in &borrows[mid..]   (0-based index j)
RECURSIVE InnerLoop(_, _, _)
InnerLoop(borrows, i, j) ==
    IF j >= Len(borrows) THEN "none"
    ELSE LET a == borrows[i + 1]
             b == borrows[j + 1]
             m == IF a.storage_id = b.storage_id
                  THEN Match(a.mutability, b.mutability)
                  ELSE "none"
         IN IF m # "none" THEN m ELSE InnerLoop(borrows, i, j + 1)

\* for a_type_info in &borrows[..mid]   (0-based index i)
RECURSIVE OuterLoop(_, _, _)
OuterLoop(borrows, mid, i) ==
    IF i >= mid THEN "none"
    ELSE LET e == InnerLoop(borrows, i, mid)
         IN IF e # "none" THEN e ELSE OuterLoop(borrows, mid, i + 1)

\* the checks of the N-argument conversions: "none" or the InvalidSystem
Validate(borrows) ==
    IF AllStoragesCheck(borrows) THEN "AllStorages"
    ELSE OuterLoop(borrows, Mid(Len(borrows)), 0)

\* into_workload_try_system: contains(..) && borrows.len() > 1
TryAllStoragesCheck(borrows) ==
    Contains(borrows, Sentinel) /\ Len(borrows) > 1

\* into_workload_try_system: borrows.len() / 2 + (borrows.len() % 2 != 0) as usize
TryMid(len) == (len \div 2) + (IF len % 2 # 0 THEN 1 ELSE 0)

\* into_workload_try_system: match on the two mutabilities
TryMatch(a, b) ==
    IF a = "Exclusive" /\ b = "Exclusive" THEN "MultipleViewsMut"
    ELSE IF (a = "Exclusive" /\ b = "Shared") \/ (a = "Shared" /\ b = "Exclusive")
         THEN "MultipleViews"
    ELSE "none"

\* into_workload_try_system: for b_type_info in &borrows[mid..]
RECURSIVE TryInnerLoop(_, _, _)
TryInnerLoop(borrows, i, j) ==
    IF j >= Len(borrows) THEN "none"
    ELSE LET a == borrows[i + 1]
             b == borrows[j + 1]
             m == IF a.storage_id = b.storage_id
                  THEN TryMatch(a.mutability, b.mutability)
                  ELSE "none"
         IN IF m # "none" THEN m ELSE TryInnerLoop(borrows, i, j + 1)

\* into_workload_try_system: for a_type_info in &borrows[..mid]
RECURSIVE TryOuterLoop(_, _, _)
TryOuterLoop(borrows, mid, i) ==
    IF i >= mid THEN "none"
    ELSE LET e == TryInnerLoop(borrows, i, mid)
         IN IF e # "none" THEN e ELSE TryOuterLoop(borrows, mid, i + 1)

\* the checks of into_workload_try_system
TryValidate(borrows) ==
    IF TryAllStoragesCheck(borrows) THEN "AllStorages"
    ELSE TryOuterLoop(borrows, TryMid(Len(borrows)), 0)

(* ---------------------------- callables ------------------------------- *)

RECURSIVE SeqsOfLen(_, _)
SeqsOfLen(S, n) ==
    IF n = 0 THEN {<< >>}
    ELSE {Append(q, x) : q \in SeqsOfLen(S, n - 1), x \in S}

\* a callable is known by the types of its parameters
Funcs(lo, hi) ==
    {[params |-> ps] : ps \in UNION {SeqsOfLen(ParamTypes, n) : n \in lo..hi}}

\* TypeId::of::<F>()
TypeIdOf(f) == <<"TypeId", f.params>>

\* type_name::<F>()
TypeNameOf(f) == <<"type_name", f.params>>

(* --------------------------- the thunks ------------------------------- *)

\* $type::borrow(&world): the execution context grants the view or not
borrow(k, granted) ==
    IF granted THEN [tag |-> "Ok", event |-> <<"borrow", k, "ok">>]
    ELSE [tag |-> "Err", event |-> <<"borrow", k, "fail">>]

\* the callable: it acts on the world, then reports r
Call(f, r, w) == [value |-> r, world |-> w + 1, event |-> <<"call", r>>]

RECURSIVE BorrowArgsNoStop(_, _, _, _, _)
BorrowArgsNoStop(params, k, outs, log, failed) ==
    IF k > Len(params) THEN [failed |-> failed, log |-> log]
    ELSE LET v == borrow(k, outs[k])
         IN BorrowArgsNoStop(params, k + 1, outs, Append(log, v.event),
                IF failed = 0 /\ v.tag = "Err" THEN k ELSE failed)

BorrowArgsMutant(params, k, outs, log) ==
    BorrowArgsNoStop(params, k, outs, log, 0)

\* $($type::borrow(&world)?),+ : the arguments, left to right, with `?`
RECURSIVE BorrowArgs(_, _, _, _)
BorrowArgs(params, k, outs, log) ==
    IF k > Len(params) THEN [failed |-> 0, log |-> log]
    ELSE LET v == borrow(k, outs[k])
         IN IF v.tag = "Ok"
            THEN BorrowArgs(params, k + 1, outs, Append(log, v.event))
            ELSE [failed |-> k, log |-> Append(log, v.event)]

RunOk == [tag |-> "Ok"]
RunGetStorage(k) == [tag |-> "Err", run |-> <<"GetStorage", k>>]
\* error::Run::from_custom
RunCustom == [tag |-> "Err", run |-> <<"Custom">>]

ZeroSystemFnPropagating(f, outs, r, w) ==
    LET c == Call(f, r, w)
    IN [ret |-> IF c.value = "err" THEN RunCustom ELSE RunOk,
        log |-> <<c.event>>, world |-> c.world]

\* move |_: &World| { (self)(); Ok(()) }
ZeroSystemFn(f, outs, r, w) ==
    LET c == Call(f, r, w)
    IN [ret |-> RunOk, log |-> <<c.event>>, world |-> c.world]

\* move |_: &World| { (self)().into().map_err(error::Run::from_custom)?; Ok(()) }
ZeroTrySystemFn(f, outs, r, w) ==
    LET c == Call(f, r, w)
    IN [ret |-> IF c.value = "err" THEN RunCustom ELSE RunOk,
        log |-> <<c.event>>, world |-> c.world]

\* move |world: &World| { Ok(drop((&&self)($($type::borrow(&world)?),+))) }
NSystemFn(f, outs, r, w) ==
    LET b == BorrowArgs(f.params, 1, outs, << >>)
    IN IF b.failed # 0
       THEN [ret |-> RunGetStorage(b.failed), log |-> b.log, world |-> w]
       ELSE LET c == Call(f, r, w)
            IN [ret |-> RunOk, log |-> Append(b.log, c.event), world |-> c.world]

NTrySystemFnRollback(f, outs, r, w) ==
    LET b == BorrowArgs(f.params, 1, outs, << >>)
    IN IF b.failed # 0
       THEN [ret |-> RunGetStorage(b.failed), log |-> b.log, world |-> w]
       ELSE LET c == Call(f, r, w)
            IN [ret |-> IF c.value = "err" THEN RunCustom ELSE RunOk,
                log |-> Append(b.log, c.event),
                world |-> IF c.value = "err" THEN w ELSE c.world]

\* ... (&&self)($($type::borrow(&world)?),+).into().map_err(error::Run::from_custom)? ...
NTrySystemFn(f, outs, r, w) ==
    LET b == BorrowArgs(f.params, 1, outs, << >>)
    IN IF b.failed # 0
       THEN [ret |-> RunGetStorage(b.failed), log |-> b.log, world |-> w]
       ELSE LET c == Call(f, r, w)
            IN [ret |-> IF c.value = "err" THEN RunCustom ELSE RunOk,
                log |-> Append(b.log, c.event), world |-> c.world]

\* invoking the boxed closure of a WorkloadSystem
system_fn(fn, outs, r, w) ==
    CASE fn.kind = "zero_sys" -> ZeroSystemFn(fn.self, outs, r, w)
      [] fn.kind = "zero_try" -> ZeroTrySystemFn(fn.self, outs, r, w)
      [] fn.kind = "n_sys"    -> NSystemFn(fn.self, outs, r, w)
      [] fn.kind = "n_try"    -> NTrySystemFn(fn.self, outs, r, w)

(* ------------------------- the regenerators --------------------------- *)

\* |_| TypeId::of::<F>()
ZeroGenerator(f, constraints) ==
    [constraints |-> constraints, type_id |-> TypeIdOf(f)]

\* |constraints| { $( $type::borrow_info(constraints); )+ TypeId::of::<Func>() }
NGenerator(f, constraints) ==
    [constraints |-> Accumulate(f.params, 1, constraints), type_id |-> TypeIdOf(f)]

\* calling the fn pointer stored in a WorkloadSystem
generator(g, constraints) ==
    IF g.kind = "zero" THEN ZeroGenerator(g.F, constraints)
    ELSE NGenerator(g.F, constraints)

(* -------------------------- the conversions --------------------------- *)

Ok(ws) == [tag |-> "Ok", ws |-> ws]
Err(e) == [tag |-> "Err", err |-> e]
None == [tag |-> "none"]

WorkloadSystem(bc, fn, f, g) ==
    [borrow_constraints |-> bc, system_fn |-> fn,
     system_type_id |-> TypeIdOf(f), system_type_name |-> TypeNameOf(f),
     generator |-> g]

\* impl IntoWorkloadSystem<Untracked, R> for F :: into_workload_system
UntrackedIntoWorkloadSystem(f) ==
    Ok(WorkloadSystem(<< >>, [kind |-> "zero_sys", self |-> f], f,
                      [kind |-> "zero", F |-> f]))

\* impl IntoWorkloadSystem<Untracked, R> for F :: into_workload_try_system
UntrackedIntoWorkloadTrySystem(f) ==
    Ok(WorkloadSystem(<< >>, [kind |-> "zero_try", self |-> f], f,
                      [kind |-> "zero", F |-> f]))

RECURSIVE Dedup(_)
Dedup(s) ==
    IF s = << >> THEN << >>
    ELSE LET h == Head(s)
             t == Dedup(Tail(s))
         IN IF \E i \in 1..Len(t) : t[i] = h THEN t ELSE <<h>> \o t

BuiltDeduplicated(borrows, kind, f) ==
    Ok(WorkloadSystem(Dedup(borrows), [kind |-> kind, self |-> f], f,
                      [kind |-> "n", F |-> f]))

\* Ok(WorkloadSystem { borrow_constraints: borrows, system_fn, ... })
Built(borrows, kind, f) ==
    Ok(WorkloadSystem(borrows, [kind |-> kind, self |-> f], f,
                      [kind |-> "n", F |-> f]))

\* impl_system! :: into_workload_system
NIntoWorkloadSystem(f) ==
    LET borrows == Accumulate(f.params, 1, << >>)
        e == Validate(borrows)
    IN IF e # "none" THEN Err(e) ELSE Built(borrows, "n_sys", f)

\* impl_system! :: into_workload_try_system
NIntoWorkloadTrySystem(f) ==
    LET borrows == Accumulate(f.params, 1, << >>)
        e == TryValidate(borrows)
    IN IF e # "none" THEN Err(e) ELSE Built(borrows, "n_try", f)

PassthroughRewrapped(ws) ==
    Ok([ws EXCEPT !.system_fn = [kind |-> "n_sys", self |-> ws.system_fn.self]])

\* impl IntoWorkloadSystem<(), ()> for WorkloadSystem :: Ok(self)
Passthrough(ws) == Ok(ws)

(* ----------------------------- actions -------------------------------- *)

NeverRan == [ran |-> FALSE]

\* the descriptor the owning scheduler holds
Current == IF passed.tag = "Ok" THEN passed.ws ELSE result.ws

Init ==
    /\ func \in Funcs(0, MaxRunArity)
    /\ result = None
    /\ passed = None
    /\ world = 0
    /\ last = NeverRan

InitConv ==
    /\ func \in Funcs(1, MaxArity)
    /\ result = None
    /\ passed = None
    /\ world = 0
    /\ last = NeverRan

ConvertUntracked ==
    /\ result = None
    /\ Len(func.params) = 0
    /\ result' = UntrackedIntoWorkloadSystem(func)
    /\ UNCHANGED <<func, passed, world, last>>

ConvertUntrackedTry ==
    /\ result = None
    /\ Len(func.params) = 0
    /\ result' = UntrackedIntoWorkloadTrySystem(func)
    /\ UNCHANGED <<func, passed, world, last>>

ConvertN ==
    /\ result = None
    /\ Len(func.params) >= 1
    /\ result' = NIntoWorkloadSystem(func)
    /\ UNCHANGED <<func, passed, world, last>>

ConvertNTry ==
    /\ result = None
    /\ Len(func.params) >= 1
    /\ result' = NIntoWorkloadTrySystem(func)
    /\ UNCHANGED <<func, passed, world, last>>

\* WorkloadSystem::into_workload_system
ConvertBuilt ==
    /\ result.tag = "Ok"
    /\ passed = None
    /\ passed' = Passthrough(result.ws)
    /\ UNCHANGED <<func, result, world, last>>

\* WorkloadSystem::into_workload_try_system
ConvertBuiltTry ==
    /\ result.tag = "Ok"
    /\ passed = None
    /\ passed' = Passthrough(result.ws)
    /\ UNCHANGED <<func, result, world, last>>

\* the owning scheduler invokes the thunk
RunThunk ==
    /\ result.tag = "Ok"
    /\ world < MaxWorld
    /\ \E outs \in [1..Len(func.params) -> BOOLEAN], r \in {"ok", "err"} :
          LET o == system_fn(Current.system_fn, outs, r, world)
          IN /\ last' = [ran |-> TRUE, log |-> o.log, ret |-> o.ret,
                         world_before |-> world]
             /\ world' = o.world
    /\ UNCHANGED <<func, result, passed>>

Next ==
    \/ ConvertUntracked
    \/ ConvertUntrackedTry
    \/ ConvertN
    \/ ConvertNTry
    \/ ConvertBuilt
    \/ ConvertBuiltTry
    \/ RunThunk

NextConv ==
    \/ ConvertN
    \/ ConvertNTry

Spec == Init /\ [][Next]_vars

SpecConv == InitConv /\ [][NextConv]_vars

(* ------------------- vocabulary of the properties --------------------- *)

\* the access list of a callable: its parameters' records, in declared order
RECURSIVE DeclaredList(_)
DeclaredList(ps) ==
    IF ps = << >> THEN << >> ELSE Records(Head(ps)) \o DeclaredList(Tail(ps))

L == DeclaredList(func.params)

Converted == result # None

\* mid = ceil(len / 2)
CeilHalf(n) == (n + 1) \div 2

\* the pairs (first half, second half), as 1-based positions
CrossPairs(l) ==
    {<<i, j>> : i \in 1..CeilHalf(Len(l)), j \in (CeilHalf(Len(l)) + 1)..Len(l)}

SameStorage(l, p) == l[p[1]].storage_id = l[p[2]].storage_id

BothExclusive(l, p) ==
    l[p[1]].mutability = "Exclusive" /\ l[p[2]].mutability = "Exclusive"

Mixed(l, p) == l[p[1]].mutability # l[p[2]].mutability

CrossExclusivePairs(l) ==
    {p \in CrossPairs(l) : SameStorage(l, p) /\ BothExclusive(l, p)}

CrossMixedPairs(l) ==
    {p \in CrossPairs(l) : SameStorage(l, p) /\ Mixed(l, p)}

IsSentinel(e) == e.storage_id = AllStoragesId /\ e.mutability = "Exclusive"

HasSentinel(l) == \E i \in 1..Len(l) : IsSentinel(l[i])

\* scan order: i ascending, then j ascending
Before(p, q) == p[1] < q[1] \/ (p[1] = q[1] /\ p[2] < q[2])

FirstOf(S) == CHOOSE p \in S : \A q \in S \ {p} : Before(p, q)

Reference(l) ==
    IF HasSentinel(l) /\ Len(l) > 1 THEN "AllStorages"
    ELSE LET S == CrossExclusivePairs(l) \cup CrossMixedPairs(l)
         IN IF S = {} THEN "success"
            ELSE IF BothExclusive(l, FirstOf(S)) THEN "MultipleViewsMut"
            ELSE "MultipleViews"

(* ------------------------------ C1 ------------------------------------ *)

\* C1 as stated: a cross-half pair of Exclusive entries on one storage
\* always makes construction fail with MultipleViewsMut.
C1_Original ==
    (Converted /\ CrossExclusivePairs(L) # {})
        => result = Err("MultipleViewsMut")

\* C1 (amended): a cross-half pair of Exclusive entries on one storage makes
\* construction fail: with AllStorages when the list holds the sentinel,
\* otherwise with MultipleViewsMut or, only when a cross-half mixed pair on
\* one storage exists too, possibly MultipleViews.
C1_CrossExclusiveRejected ==
    (Converted /\ CrossExclusivePairs(L) # {})
        => /\ result.tag = "Err"
           /\ HasSentinel(L) => result.err = "AllStorages"
           /\ ~HasSentinel(L) => result.err \in {"MultipleViewsMut", "MultipleViews"}
           /\ (~HasSentinel(L) /\ CrossMixedPairs(L) = {})
                  => result.err = "MultipleViewsMut"

C1_Witness ==
    /\ Converted
    /\ CrossExclusivePairs(L) # {}
    /\ ~HasSentinel(L)
    /\ Len(L) = 4
    /\ result = Err("MultipleViewsMut")

(* ------------------------------ C2 ------------------------------------ *)

\* C2 as stated: a cross-half pair of one Exclusive and one Shared entry on
\* one storage always makes construction fail with MultipleViews.
C2_Original ==
    (Converted /\ CrossMixedPairs(L) # {})
        => result = Err("MultipleViews")

\* C2 (amended): a cross-half mixed pair on one storage makes construction
\* fail: with AllStorages when the list holds the sentinel, otherwise with
\* MultipleViews or, only when a cross-half Exclusive pair on one storage
\* exists too, possibly MultipleViewsMut.
C2_CrossMixedRejected ==
    (Converted /\ CrossMixedPairs(L) # {})
        => /\ result.tag = "Err"
           /\ HasSentinel(L) => result.err = "AllStorages"
           /\ ~HasSentinel(L) => result.err \in {"MultipleViewsMut", "MultipleViews"}
           /\ (~HasSentinel(L) /\ CrossExclusivePairs(L) = {})
                  => result.err = "MultipleViews"

C2_Witness ==
    /\ Converted
    /\ \E p \in CrossMixedPairs(L) : L[p[1]].mutability = "Shared"
    /\ \E p \in CrossMixedPairs(L) : L[p[1]].mutability = "Exclusive"
    /\ CrossExclusivePairs(L) = {}
    /\ result = Err("MultipleViews")

(* ------------------------------ C3 ------------------------------------ *)

\* C3: a list whose only entry is the sentinel is accepted; a longer list
\* holding the sentinel anywhere is rejected with AllStorages, whatever the
\* other entries are.
C3_AllStorages ==
    Converted =>
        /\ (Len(L) = 1 /\ IsSentinel(L[1])) => result.tag = "Ok"
        /\ (Len(L) > 1 /\ HasSentinel(L)) => result = Err("AllStorages")

C3_Witness ==
    /\ Converted
    /\ Len(L) > 2
    /\ IsSentinel(L[Len(L)])
    /\ ~IsSentinel(L[1])
    /\ \E p \in CrossExclusivePairs(L) : ~IsSentinel(L[p[1]])
    /\ result = Err("AllStorages")

(* ------------------------------ C4 ------------------------------------ *)

\* C4: without the sentinel and without a storage shared across the two
\* halves, construction succeeds, conflicts inside one half included.
C4_IntraHalfAccepted ==
    (Converted /\ ~HasSentinel(L)
       /\ \A p \in CrossPairs(L) : ~SameStorage(L, p))
        => result.tag = "Ok"

C4_Witness ==
    /\ func.params = <<"ViewMutA", "ViewMutA", "ViewB", "ViewB">>
    /\ result.tag = "Ok"
    /\ result.ws.borrow_constraints = L

(* ------------------------------ C10 ----------------------------------- *)

\* C10: the outcome of either N-argument conversion is AllStorages for a
\* sentinel in a list longer than 1, else the error of the first conflicting
\* cross-half pair in scan order, else success with the list unchanged.
C10_Reference ==
    Converted =>
        IF Reference(L) = "success"
        THEN result.tag = "Ok" /\ result.ws.borrow_constraints = L
        ELSE result = Err(Reference(L))

C10_Witness ==
    /\ Converted
    /\ Len(L) = 4
    /\ CrossExclusivePairs(L) # {}
    /\ CrossMixedPairs(L) # {}
    /\ Mixed(L, FirstOf(CrossExclusivePairs(L) \cup CrossMixedPairs(L)))
    /\ result = Err("MultipleViews")

(* --------------------- vocabulary of the runs ------------------------- *)

N == Len(func.params)

\* the thunk that ran comes from an N-argument conversion
NThunk == result.tag = "Ok" /\ Current.system_fn.kind \in {"n_sys", "n_try"}

\* the thunk that ran comes from a fallible conversion
TryThunk == result.tag = "Ok" /\ Current.system_fn.kind \in {"zero_try", "n_try"}

IsBorrow(e) == e[1] = "borrow"
IsCall(e) == e[1] = "call"

Borrows(log) == {i \in 1..Len(log) : IsBorrow(log[i])}
Calls(log) == {i \in 1..Len(log) : IsCall(log[i])}
Failures(log) == {i \in Borrows(log) : log[i][3] = "fail"}

(* ------------------------------ C5 ------------------------------------ *)

\* C5: a run of an N-argument thunk requests the views one by one in
\* parameter order, calls the callable only after all N were granted, and
\* on the first refusal stops, does not call, and returns that refusal.
C5_AcquireInOrder ==
    (NThunk /\ last.ran) =>
        /\ \A i \in Borrows(last.log) : last.log[i][2] = i
        /\ \A i \in Calls(last.log) :
              /\ i = N + 1
              /\ \A k \in 1..N : last.log[k] = <<"borrow", k, "ok">>
        /\ \A k \in Failures(last.log) :
              /\ Len(last.log) = k
              /\ Calls(last.log) = {}
              /\ last.ret = RunGetStorage(k)
              /\ world = last.world_before
        /\ Failures(last.log) = {} => Cardinality(Calls(last.log)) = 1

C5_Witness ==
    /\ NThunk
    /\ last.ran
    /\ N = 3
    /\ last.log = <<<<"borrow", 1, "ok">>, <<"borrow", 2, "fail">>>>
    /\ last.ret = RunGetStorage(2)

(* ------------------------------ C6 ------------------------------------ *)

\* C6: a run of a fallible thunk in which every acquisition succeeds calls
\* the callable exactly once, fails exactly when the callable reports
\* failure, and keeps the callable's side effect even then.
C6_TryOutcome ==
    (TryThunk /\ last.ran /\ Failures(last.log) = {}) =>
        /\ Cardinality(Calls(last.log)) = 1
        /\ \A i \in Calls(last.log) :
              /\ last.ret.tag = "Err" <=> last.log[i][2] = "err"
              /\ last.ret.tag = "Err" => last.ret = RunCustom
              /\ last.ret.tag # "Err" => last.ret = RunOk
        /\ world = last.world_before + 1

C6_Witness ==
    /\ TryThunk
    /\ last.ran
    /\ N = 2
    /\ Failures(last.log) = {}
    /\ last.ret = RunCustom
    /\ world = last.world_before + 1

(* ------------------------------ C7 ------------------------------------ *)

Regenerates(ws) ==
    generator(ws.generator, << >>) =
        [constraints |-> ws.borrow_constraints, type_id |-> ws.system_type_id]

\* C7: the access list and type id of every returned descriptor are what
\* its regenerator yields on an empty accumulator, before and after runs.
C7_RegeneratorAgrees ==
    /\ result.tag = "Ok" => Regenerates(result.ws)
    /\ passed.tag = "Ok" => Regenerates(passed.ws)

C7_Witness ==
    /\ result.tag = "Ok"
    /\ passed.tag = "Ok"
    /\ last.ran
    /\ Len(result.ws.borrow_constraints) = 3
    /\ result.ws.borrow_constraints[1] = result.ws.borrow_constraints[2]
    /\ Regenerates(passed.ws)

(* ------------------------------ C8 ------------------------------------ *)

\* C8: converting a zero-argument callable never fails and yields an empty
\* access list; a run of the thunk of into_workload_system requests no
\* view, calls the callable once and returns success.
C8_ZeroArgument ==
    (N = 0 /\ Converted) =>
        /\ result.tag = "Ok"
        /\ result.ws.borrow_constraints = << >>
        /\ (Current.system_fn.kind = "zero_sys" /\ last.ran) =>
              /\ Borrows(last.log) = {}
              /\ Cardinality(Calls(last.log)) = 1
              /\ last.ret = RunOk

C8_Witness ==
    /\ N = 0
    /\ result.tag = "Ok"
    /\ Current.system_fn.kind = "zero_sys"
    /\ last.ran
    /\ last.log = <<<<"call", "err">>>>
    /\ last.ret = RunOk

(* ------------------------------ C9 ------------------------------------ *)

\* C9: converting a built descriptor succeeds and returns it unchanged:
\* same thunk, name, type id, regenerator and access list.
C9_Passthrough ==
    passed # None =>
        /\ passed.tag = "Ok"
        /\ passed.ws = result.ws
        /\ passed.ws.system_fn = result.ws.system_fn
        /\ passed.ws.borrow_constraints = result.ws.borrow_constraints

C9_Witness ==
    /\ passed.tag = "Ok"
    /\ passed.ws = result.ws
    /\ Len(passed.ws.borrow_constraints) = 4
    /\ passed.ws.system_fn.kind = "n_try"
    /\ ~last.ran

====
